---- MODULE Spec2Model ----
(***************************************************************************)
(* Model of the ship-detection pipeline: build_ais / raw_ais.build (AIS    *)
(* table construction), build_tiles (satellite footprint table) and        *)
(* build_chips (spatial join, 5 minute temporal filter, dead reckoning).   *)
(*                                                                         *)
(* Number representation (TLC integers are 32 bit):                        *)
(*   lat, lon, pred_lat, pred_lon : fixed point, 1e-7 degree per unit      *)
(*   utc, date, buffer_*, time_delta : milliseconds                        *)
(*   travelled : millimetres                                               *)
(*   sog : knots, cog : degrees, length : metres                           *)
(***************************************************************************)
EXTENDS Integers, Sequences, FiniteSets

VARIABLES ais, sat_tiles, filtered, intersection, log

vars == <<ais, sat_tiles, filtered, intersection, log>>

\* ------------------------------------------------------------------------
\* bounds of the exploration
MaxRaw == 3
MaxTiles == 2

\* one unit of the fixed-point degree representation is 1e-7 degree
Scale == 10^7
\* magnitude standing for every value beyond the representable range
\* (|x| >= 200 degrees); a division by cos(radians(90)) = 6.1e-17 lands here
Huge == 2 * 10^9

\* ------------------------------------------------------------------------
\* program constants
KNOTS_IN_KM == 1852
SECONDS_IN_HOUR == 3600
KM_PER_DEGREE == 111320
BufferMs == 5 * 60 * 1000
SogMin == 1
SogMax == 80
LengthMin == 30
LengthMax == 400
HeadingNonResponder == 511

\* np.nan in the heading column (no heading is negative)
NaN == 0 - 1

\* a table that has not been built yet (no columns at all)
NoTable == [columns |-> {}, rows |-> <<>>]

\* ------------------------------------------------------------------------
\* integer helpers
Abs(x) == IF x < 0 THEN -x ELSE x
Sign(x) == IF x < 0 THEN -1 ELSE IF x > 0 THEN 1 ELSE 0

\* a * n / d rounded toward zero, without forming the product a * n
MulDiv(a, n, d) ==
  LET s == Sign(a) * Sign(n) * Sign(d)
      aa == Abs(a)
      nn == Abs(n)
      dd == Abs(d)
  IN s * ((aa \div dd) * nn + ((aa % dd) * nn) \div dd)

\* ------------------------------------------------------------------------
\* build_ais / raw_ais.build

\* the rows the downloaded CSV may hold; BaseDateTime is the fixed-width text
\* "..:MM:SS", held as its zero-padded fields <<MM, SS>>
RawRow(mmsi, t, lat, lon, sog, cog, heading, len, cls) ==
  [MMSI |-> mmsi, BaseDateTime |-> t, LAT |-> lat * Scale, LON |-> lon * Scale,
   SOG |-> sog, COG |-> cog, Heading |-> heading, Length |-> len,
   TransceiverClass |-> cls]

RawPool ==
  { RawRow(1, <<10, 0>>, 0, 0, 10, 90, 90, 100, "A"),
    RawRow(1, <<12, 0>>, 0, 0, 10, 0, 511, 100, "A"),
    RawRow(1, <<10, 0>>, 60, 10, 20, 180, 180, 100, "A"),
    RawRow(2, <<9, 59>>, 90, 0, 10, 90, 90, 200, "A"),
    RawRow(2, <<10, 0>>, 60, 10, 10, 270, 270, 200, "A"),
    RawRow(3, <<10, 0>>, 0, 0, 10, 90, 90, 100, "B"),
    RawRow(3, <<10, 0>>, 0, 0, 1, 90, 90, 100, "A"),
    RawRow(3, <<10, 0>>, 0, 0, 10, 90, 90, 30, "A") }

RawTables == UNION { [1..n -> RawPool] : n \in 0..MaxRaw }

AisColumns ==
  {"utc", "lat", "lon", "sog", "cog", "heading", "length", "transceiver_class"}

\* ais.rename(columns=column_renames)
RenameRow(r) ==
  [mmsi |-> r.MMSI, utc |-> r.BaseDateTime, lat |-> r.LAT, lon |-> r.LON,
   sog |-> r.SOG, cog |-> r.COG, heading |-> r.Heading, length |-> r.Length,
   transceiver_class |-> r.TransceiverClass]

IsClassA(r) == r.transceiver_class = "A"
SogInRange(r) == r.sog > SogMin /\ r.sog < SogMax
LengthInRange(r) == r.length > LengthMin /\ r.length < LengthMax

\* ais.replace({"heading": {511: np.nan}})
ReplaceHeading(r) ==
  [r EXCEPT !.heading = IF @ = HeadingNonResponder THEN NaN ELSE @]

\* order of the text of two BaseDateTime values (character-wise order of
\* zero-padded fields is the order of the field tuples)
StrLeq(a, b) == a[1] < b[1] \/ (a[1] = b[1] /\ a[2] <= b[2])

\* variant: the table is sorted by mmsi only
KeyLeqMmsiOnly(a, b) == a.mmsi <= b.mmsi

\* sort_values(by=["mmsi", "utc"]): the order of the sort keys
KeyLeq(a, b) == a.mmsi < b.mmsi \/ (a.mmsi = b.mmsi /\ StrLeq(a.utc, b.utc))

Perms(n) == { p \in [1..n -> 1..n] : \A i, j \in 1..n : i # j => p[i] # p[j] }

\* the orders of a table of up to MaxRaw rows
PermsOf == [n \in 0..MaxRaw |-> Perms(n)]

\* every outcome of the (unstable) sort: rows with equal keys in any order
SortValues(rows) ==
  LET n == Len(rows)
  IN { [i \in 1..n |-> rows[p[i]]] : p \in
         { q \in PermsOf[n] : \A i \in 1..n - 1 : KeyLeq(rows[q[i]], rows[q[i + 1]]) } }

\* groupby("mmsi").cumcount(): number of earlier rows of the same group
CumCount(rows, i) == Cardinality({ j \in 1..i - 1 : rows[j].mmsi = rows[i].mmsi })

\* pd.to_datetime(ais["utc"], utc=True), in milliseconds
ToDatetime(t) == (60 * t[1] + t[2]) * 1000

\* sorted rows -> indexed by (mmsi, ping), utc typed
Indexed(rows) ==
  [i \in 1..Len(rows) |->
     [mmsi |-> rows[i].mmsi, ping |-> CumCount(rows, i),
      utc |-> ToDatetime(rows[i].utc), lat |-> rows[i].lat, lon |-> rows[i].lon,
      sog |-> rows[i].sog, cog |-> rows[i].cog, heading |-> rows[i].heading,
      length |-> rows[i].length,
      transceiver_class |-> rows[i].transceiver_class]]

\* the filters, in the order of the code
Filters(raw) ==
  LET renamed == [i \in 1..Len(raw) |-> RenameRow(raw[i])]
      classA == SelectSeq(renamed, IsClassA)
      moving == SelectSeq(classA, SogInRange)
      large == SelectSeq(moving, LengthInRange)
  IN [i \in 1..Len(large) |-> ReplaceHeading(large[i])]

\* the tables build_ais may return for a downloaded CSV
AisTables(raw) ==
  { [columns |-> AisColumns, rows |-> Indexed(s)] : s \in SortValues(Filters(raw)) }

\* ------------------------------------------------------------------------
\* build_tiles

\* a polygon part: an axis-parallel rectangle given in whole degrees
Box(x0, x1, y0, y1) ==
  [xmin |-> x0 * Scale, xmax |-> x1 * Scale, ymin |-> y0 * Scale, ymax |-> y1 * Scale]

\* a catalog item: id, geometry (a set of parts; empty = empty geometry) and
\* the capture instant in milliseconds
Item(id, geom, dt) == [id |-> id, geometry |-> geom, datetime |-> dt]

Catalog ==
  << Item("T1", {Box(-5, 5, -5, 5)}, 900000),
     Item("T2", {Box(-5, 5, -5, 5)}, 900001),
     Item("T3", {Box(-5, 5, -5, 5)}, 300000),
     Item("T4", {Box(-1, 20, -1, 70)}, 480000),
     Item("T5", {Box(-5, 5, -5, 5)}, 960000),
     Item("T6", {}, 600000),
     Item("T7", {Box(-5, 5, 80, 91), Box(-5, 5, -5, 5)}, 600000),
     Item("T8", {Box(0, 5, -5, 5)}, 600000),
     Item("T9", {Box(-5, 5, -5, 5)}, 299999) >>

ItemIds == { Catalog[i].id : i \in DOMAIN Catalog }

\* the item lists a catalog search may return (in catalog order)
SearchResults ==
  { LET Hit(it) == it.id \in S IN SelectSeq(Catalog, Hit) :
      S \in { T \in SUBSET ItemIds : Cardinality(T) <= MaxTiles } }

TileColumns == {"geometry", "date"}

\* the GeoDataFrame of (id, geom, dt) tuples, indexed by id
TilesTable(items) ==
  [columns |-> TileColumns,
   rows |-> [i \in 1..Len(items) |->
               [id |-> items[i].id, geometry |-> items[i].geometry,
                date |-> items[i].datetime]]]

\* ------------------------------------------------------------------------
\* build_chips

\* gpd.points_from_xy(ais.lon, ais.lat)
PointOf(r) == [x |-> r.lon, y |-> r.lat]

\* predicate="within": the point is in the interior of the geometry
Within(pt, geom) ==
  \E b \in geom : b.xmin < pt.x /\ pt.x < b.xmax /\ b.ymin < pt.y /\ pt.y < b.ymax

\* sat_tiles["buffer_start_time"] = ..., sat_tiles["buffer_end_time"] = ...
WithBuffer(tiles) ==
  [columns |-> tiles.columns \cup {"buffer_start_time", "buffer_end_time"},
   rows |-> [j \in 1..Len(tiles.rows) |->
               [id |-> tiles.rows[j].id, geometry |-> tiles.rows[j].geometry,
                date |-> tiles.rows[j].date,
                buffer_start_time |-> tiles.rows[j].date - BufferMs,
                buffer_end_time |-> tiles.rows[j].date + BufferMs]]]

\* the k-th (report, footprint) pair of an n-row by m-row product
PairAt(k, m) == [r |-> ((k - 1) \div m) + 1, t |-> ((k - 1) % m) + 1]

\* one row of the join: the report's columns, its point, and the footprint's
\* index and non-geometry columns
JoinRow(a, t) ==
  [mmsi |-> a.mmsi, ping |-> a.ping, utc |-> a.utc, lat |-> a.lat, lon |-> a.lon,
   sog |-> a.sog, cog |-> a.cog, heading |-> a.heading, length |-> a.length,
   transceiver_class |-> a.transceiver_class, geometry |-> PointOf(a),
   index_right |-> t.id, date |-> t.date,
   buffer_start_time |-> t.buffer_start_time,
   buffer_end_time |-> t.buffer_end_time]

\* variant: a report is joined to the first footprint that holds it only
SJoinFirstMatch(arows, trows) ==
  LET n == Len(arows)
      m == Len(trows)
      pairs == [k \in 1..(n * m) |-> PairAt(k, m)]
      Hit(p) == /\ Within(PointOf(arows[p.r]), trows[p.t].geometry)
                /\ \A t \in 1..(p.t - 1) :
                     ~Within(PointOf(arows[p.r]), trows[t].geometry)
      hits == SelectSeq(pairs, Hit)
  IN [k \in 1..Len(hits) |-> JoinRow(arows[hits[k].r], trows[hits[k].t])]

\* variant: the join has no spatial predicate (cross join)
SJoinCross(arows, trows) ==
  LET n == Len(arows)
      m == Len(trows)
  IN [k \in 1..(n * m) |-> JoinRow(arows[PairAt(k, m).r], trows[PairAt(k, m).t])]

\* gpd.sjoin(ais, sat_tiles, predicate="within"): inner join
SJoin(arows, trows) ==
  LET n == Len(arows)
      m == Len(trows)
      pairs == [k \in 1..(n * m) |-> PairAt(k, m)]
      Hit(p) == Within(PointOf(arows[p.r]), trows[p.t].geometry)
      hits == SelectSeq(pairs, Hit)
  IN [k \in 1..Len(hits) |-> JoinRow(arows[hits[k].r], trows[hits[k].t])]

\* variant: the window is open at both ends
InBufferOpen(row) == row.utc > row.buffer_start_time /\ row.utc < row.buffer_end_time

\* utc >= buffer_start_time and utc <= buffer_end_time
InBuffer(row) == row.utc >= row.buffer_start_time /\ row.utc <= row.buffer_end_time

TemporalFilter(rows) == SelectSeq(rows, InBuffer)

\* np.cos(np.radians(deg)) and np.sin(np.radians(deg)) as IEEE doubles give
\* them: n/d + e * 6.123e-17 (the e part is the rounding residue of pi/2,
\* it decides the result only where n = 0)
Trig(n, d, e) == [n |-> n, d |-> d, e |-> e]

CosDeg(deg) ==
  CASE Abs(deg) = 0 -> Trig(1, 1, 0)
    [] Abs(deg) = 60 -> Trig(1, 2, 0)
    [] Abs(deg) = 90 -> Trig(0, 1, 1)
    [] Abs(deg) = 180 -> Trig(0 - 1, 1, 0)
    [] Abs(deg) = 270 -> Trig(0, 1, 0 - 3)

SinDeg(deg) ==
  CASE deg = 0 -> Trig(0, 1, 0)
    [] deg = 90 -> Trig(1, 1, 0)
    [] deg = 180 -> Trig(0, 1, 2)
    [] deg = 270 -> Trig(0 - 1, 1, 0)

\* a length in millimetres divided by a length of one degree in metres, as
\* fixed-point degrees
ToDegrees(mm, perDegree) == MulDiv(mm, Scale \div 1000, perDegree)

\* (pred_time - start_time).dt.total_seconds(), in milliseconds
TimeDelta(row) == row.pred_time - row.start_time

\* variant: the distance is taken over the absolute time difference
TravelledUnsigned(sog, time_delta) ==
  MulDiv(Abs(time_delta), sog * KNOTS_IN_KM, SECONDS_IN_HOUR)

\* (sog * KNOTS_IN_KM) * (time_delta / SECONDS_IN_HOUR), in millimetres
Travelled(sog, time_delta) == MulDiv(time_delta, sog * KNOTS_IN_KM, SECONDS_IN_HOUR)

\* lat + travelled * cos(radians(cog)) / KM_PER_DEGREE
PredLat(lat, cog, travelled) ==
  LET c == CosDeg(cog)
  IN lat + ToDegrees(MulDiv(travelled, c.n, c.d), KM_PER_DEGREE)

\* variant: the course is read as a math angle (east component from cos)
LonOffsetMathAngle(lat, cog, travelled) ==
  LET s == CosDeg(cog)
      c == CosDeg(lat \div Scale)
  IN IF c.n # 0
       THEN MulDiv(ToDegrees(MulDiv(travelled, s.n, s.d), KM_PER_DEGREE), c.d, c.n)
     ELSE IF s.n # 0
       THEN Sign(travelled) * Sign(s.n) * Sign(c.e) * Huge
     ELSE MulDiv(ToDegrees(travelled, KM_PER_DEGREE), s.e, c.e)

\* travelled * sin(radians(cog)) / (KM_PER_DEGREE * cos(radians(lat)))
LonOffset(lat, cog, travelled) ==
  LET s == SinDeg(cog)
      c == CosDeg(lat \div Scale)
  IN IF c.n # 0
       THEN MulDiv(ToDegrees(MulDiv(travelled, s.n, s.d), KM_PER_DEGREE), c.d, c.n)
     ELSE IF s.n # 0
       THEN Sign(travelled) * Sign(s.n) * Sign(c.e) * Huge
     ELSE MulDiv(ToDegrees(travelled, KM_PER_DEGREE), s.e, c.e)

\* lon + offset
PredLon(lat, lon, cog, travelled) ==
  LET off == LonOffset(lat, cog, travelled)
  IN IF Abs(off) >= Huge THEN off ELSE lon + off

\* rename utc -> start_time, date -> pred_time
RenameJoin(row) ==
  [mmsi |-> row.mmsi, ping |-> row.ping, start_time |-> row.utc,
   lat |-> row.lat, lon |-> row.lon, sog |-> row.sog, cog |-> row.cog,
   heading |-> row.heading, length |-> row.length,
   transceiver_class |-> row.transceiver_class, geometry |-> row.geometry,
   index_right |-> row.index_right, pred_time |-> row.date,
   buffer_start_time |-> row.buffer_start_time,
   buffer_end_time |-> row.buffer_end_time]

\* the four derived columns of one row
Augment(row) ==
  LET td == TimeDelta(row)
      tr == Travelled(row.sog, td)
  IN [mmsi |-> row.mmsi, ping |-> row.ping, start_time |-> row.start_time,
      lat |-> row.lat, lon |-> row.lon, sog |-> row.sog, cog |-> row.cog,
      heading |-> row.heading, length |-> row.length,
      transceiver_class |-> row.transceiver_class, geometry |-> row.geometry,
      index_right |-> row.index_right, pred_time |-> row.pred_time,
      buffer_start_time |-> row.buffer_start_time,
      buffer_end_time |-> row.buffer_end_time,
      time_delta |-> td, travelled |-> tr,
      pred_lat |-> PredLat(row.lat, row.cog, tr),
      pred_lon |-> PredLon(row.lat, row.lon, row.cog, tr)]

\* variant: rows whose capture precedes the report are dropped
PredictDropBackward(rows) ==
  LET Forward(row) == row.date >= row.utc
      kept == SelectSeq(rows, Forward)
  IN [k \in 1..Len(kept) |-> Augment(RenameJoin(kept[k]))]

\* column assignment over the whole frame
Predict(rows) == [k \in 1..Len(rows) |-> Augment(RenameJoin(rows[k]))]

JoinColumns ==
  AisColumns \cup {"geometry", "index_right", "date", "buffer_start_time",
                   "buffer_end_time"}

ChipColumns ==
  ((JoinColumns \ {"utc", "date"}) \cup {"start_time", "pred_time"})
    \cup {"time_delta", "travelled", "pred_lat", "pred_lon"}

\* ------------------------------------------------------------------------
\* the state machine: the caller builds the two tables, then calls build_chips

Init ==
  /\ ais = NoTable
  /\ sat_tiles = NoTable
  /\ filtered = NoTable
  /\ intersection = NoTable
  /\ log = {}

\* pipeline.build_ais
BuildAis ==
  /\ ais = NoTable
  /\ \E raw \in RawTables : ais' \in AisTables(raw)
  /\ UNCHANGED <<sat_tiles, filtered, intersection, log>>

\* raw_ais.build
Build ==
  /\ ais = NoTable
  /\ \E raw \in RawTables : ais' \in AisTables(raw)
  /\ UNCHANGED <<sat_tiles, filtered, intersection, log>>

\* pipeline.build_tiles
BuildTiles ==
  /\ sat_tiles = NoTable
  /\ \E items \in SearchResults : sat_tiles' = TilesTable(items)
  /\ UNCHANGED <<ais, filtered, intersection, log>>

\* pipeline.build_chips(ais, sat_tiles)
BuildChips ==
  /\ ais # NoTable
  /\ sat_tiles # NoTable
  /\ LET tiles == WithBuffer(sat_tiles)
         kept == TemporalFilter(SJoin(ais.rows, tiles.rows))
     IN /\ sat_tiles' = tiles
        /\ filtered' = [columns |-> JoinColumns, rows |-> kept]
        /\ intersection' = [columns |-> ChipColumns, rows |-> Predict(kept)]
  /\ UNCHANGED <<ais, log>>

Next == BuildAis \/ Build \/ BuildTiles \/ BuildChips

Spec == Init /\ [][Next]_vars

\* ------------------------------------------------------------------------
\* properties

Returned == intersection # NoTable

Reports == DOMAIN ais.rows
Tiles == DOMAIN sat_tiles.rows
Rows == DOMAIN intersection.rows

\* the rows of the result that stem from report i and footprint j
RowsOf(i, j) ==
  { k \in Rows : /\ intersection.rows[k].mmsi = ais.rows[i].mmsi
                 /\ intersection.rows[k].ping = ais.rows[i].ping
                 /\ intersection.rows[k].index_right = sat_tiles.rows[j].id }

Inside(i, j) == Within(PointOf(ais.rows[i]), sat_tiles.rows[j].geometry)

\* capture_time - report.timestamp, milliseconds
Delta(i, j) == sat_tiles.rows[j].date - ais.rows[i].utc

Qualifies(i, j) == Inside(i, j) /\ Abs(Delta(i, j)) <= 300000

\* C1: build_chips returns exactly one row for each (report, footprint) pair
\* whose point lies within the footprint and whose times differ by at most
\* 300 s, and no other row; overlapping footprints give independent rows.
C1_Completeness ==
  Returned =>
    /\ \A i \in Reports, j \in Tiles :
         Cardinality(RowsOf(i, j)) = IF Qualifies(i, j) THEN 1 ELSE 0
    /\ \A k \in Rows : \E i \in Reports, j \in Tiles : k \in RowsOf(i, j)

C1_Witness ==
  /\ Returned
  /\ \E i \in Reports : \E j1, j2 \in Tiles :
       /\ j1 # j2
       /\ Cardinality(RowsOf(i, j1)) = 1
       /\ Cardinality(RowsOf(i, j2)) = 1
  /\ \E i \in Reports, j \in Tiles : Inside(i, j) /\ RowsOf(i, j) = {}

\* C2: every row has |time_delta| <= 300 s; a pair exactly 300 s apart (and
\* inside the footprint) is a row, a pair further apart is not.
C2_TemporalBound ==
  Returned =>
    /\ \A k \in Rows :
         /\ intersection.rows[k].time_delta
              = intersection.rows[k].pred_time - intersection.rows[k].start_time
         /\ Abs(intersection.rows[k].time_delta) <= 300000
    /\ \A i \in Reports, j \in Tiles :
         /\ (Inside(i, j) /\ Abs(Delta(i, j)) = 300000) => RowsOf(i, j) # {}
         /\ Abs(Delta(i, j)) > 300000 => RowsOf(i, j) = {}

C2_Witness ==
  /\ Returned
  /\ \E k \in Rows : Abs(intersection.rows[k].time_delta) = 300000
  /\ \E i \in Reports, j \in Tiles :
       Inside(i, j) /\ Abs(Delta(i, j)) = 300001 /\ RowsOf(i, j) = {}

DerivedColumns == {"time_delta", "travelled", "pred_lat", "pred_lon"}

\* a row without its derived columns
Strip(row) == [f \in (DOMAIN row) \ DerivedColumns |-> row[f]]

\* the inputs of the prediction of a row
PredInputs(row) ==
  <<row.lat, row.lon, row.sog, row.cog, row.start_time, row.pred_time>>

\* C3: the prediction step is a per-row augmentation: the rows after it are
\* the rows that passed the two filters, one for one and unchanged apart
\* from the derived columns, and rows with the same lat, lon, sog, cog,
\* timestamp and capture time have the same prediction.
C3_PerRowAugmentation ==
  Returned =>
    /\ Len(intersection.rows) = Len(filtered.rows)
    /\ \A k \in Rows :
         /\ DerivedColumns \subseteq DOMAIN intersection.rows[k]
         /\ Strip(intersection.rows[k]) = RenameJoin(filtered.rows[k])
    /\ \A k1, k2 \in Rows :
         PredInputs(intersection.rows[k1]) = PredInputs(intersection.rows[k2])
           => /\ intersection.rows[k1].pred_lat = intersection.rows[k2].pred_lat
              /\ intersection.rows[k1].pred_lon = intersection.rows[k2].pred_lon

C3_Witness ==
  /\ Returned
  /\ Len(filtered.rows) >= 3
  /\ \E k1, k2 \in Rows :
       /\ intersection.rows[k1].time_delta < 0
       /\ intersection.rows[k2].time_delta > 0

\* C4: a pair whose footprint was captured before the report is a row with
\* negative time_delta and negative travelled distance, predicted opposite
\* to the course; with time_delta = 0 the prediction is the reported position.
C4_BackwardProjection ==
  Returned =>
    /\ \A i \in Reports, j \in Tiles :
         (Inside(i, j) /\ Delta(i, j) < 0 /\ Delta(i, j) >= 0 - 300000)
           => \E k \in RowsOf(i, j) : intersection.rows[k].time_delta = Delta(i, j)
    /\ \A k \in Rows :
         LET row == intersection.rows[k]
         IN /\ row.time_delta < 0 =>
                 /\ row.travelled < 0
                 /\ CosDeg(row.cog).n > 0 => row.pred_lat < row.lat
                 /\ CosDeg(row.cog).n < 0 => row.pred_lat > row.lat
                 /\ SinDeg(row.cog).n > 0 => row.pred_lon < row.lon
                 /\ SinDeg(row.cog).n < 0 => row.pred_lon > row.lon
            /\ row.time_delta = 0 =>
                 /\ row.pred_lat = row.lat
                 /\ row.pred_lon = row.lon

C4_Witness ==
  /\ Returned
  /\ \E k \in Rows : intersection.rows[k].time_delta = 0 - 120000
  /\ \E k \in Rows : intersection.rows[k].time_delta = 0

\* the vessel of the analytic case: (lat, lon) = (0, 0), 10 knots, due east
Vessel(i) ==
  /\ ais.rows[i].lat = 0
  /\ ais.rows[i].lon = 0
  /\ ais.rows[i].sog = 10
  /\ ais.rows[i].cog = 90

\* C5 (as stated): the vessel at (0, 0), 10 knots, course 90, with a
\* containing footprint captured 360 s later gives a row with time_delta
\* 360 s, distance 1.852 km, pred_lat 0 and pred_lon 1.852/111.32 = 0.0166367
\* within 1e-6.
C5_AnalyticCase ==
  Returned =>
    \A i \in Reports, j \in Tiles :
      (Vessel(i) /\ Inside(i, j) /\ Delta(i, j) = 360000)
        => \E k \in RowsOf(i, j) :
             /\ intersection.rows[k].time_delta = 360000
             /\ Abs(intersection.rows[k].travelled - 1852000) <= 1
             /\ Abs(intersection.rows[k].pred_lat) <= 10
             /\ Abs(intersection.rows[k].pred_lon - 166367) <= 10

\* C5 (amended): for that vessel a footprint captured 360 s later gives no
\* row (360 s is outside the 300 s window); a containing footprint captured
\* 300 s later gives a row with time_delta 300 s, distance
\* 10 * 1.852 * 300 / 3600 = 1.543333 km, pred_lat 0 and pred_lon
\* 1.543333/111.32 = 0.0138639 within 1e-6.
C5_AnalyticCaseInWindow ==
  Returned =>
    \A i \in Reports, j \in Tiles :
      (Vessel(i) /\ Inside(i, j)) =>
        /\ Delta(i, j) = 360000 => RowsOf(i, j) = {}
        /\ Delta(i, j) = 300000 =>
             \E k \in RowsOf(i, j) :
               /\ intersection.rows[k].time_delta = 300000
               /\ Abs(intersection.rows[k].travelled - 1543333) <= 1
               /\ Abs(intersection.rows[k].pred_lat) <= 10
               /\ Abs(intersection.rows[k].pred_lon - 138639) <= 10

C5_Witness ==
  /\ Returned
  /\ \E i \in Reports : \E j1, j2 \in Tiles :
       /\ Vessel(i)
       /\ Inside(i, j1) /\ Delta(i, j1) = 360000 /\ RowsOf(i, j1) = {}
       /\ Inside(i, j2) /\ Delta(i, j2) = 300000 /\ RowsOf(i, j2) # {}

\* cos(radians(lat)) is zero at the resolution of the table
AtPole(lat) == CosDeg(lat \div Scale).n = 0

\* C6: a row whose latitude is at a pole is flagged with a per-row
\* diagnostic, and no row carries a pred_lon beyond the representable
\* range (the result of dividing by a cosine of about zero).
C6_PoleGuard ==
  Returned =>
    \A k \in Rows :
      /\ AtPole(intersection.rows[k].lat)
           => \E d \in log : /\ d.mmsi = intersection.rows[k].mmsi
                             /\ d.ping = intersection.rows[k].ping
      /\ Abs(intersection.rows[k].pred_lon) < Huge

\* C7: a footprint with empty geometry yields no row and a diagnostic, and
\* the rows of the other footprints are complete.
C7_BadFootprintSkipped ==
  Returned =>
    \A j \in Tiles :
      IF sat_tiles.rows[j].geometry = {}
        THEN /\ \A i \in Reports : RowsOf(i, j) = {}
             /\ \E d \in log : d.id = sat_tiles.rows[j].id
        ELSE \A i \in Reports :
               Cardinality(RowsOf(i, j)) = IF Qualifies(i, j) THEN 1 ELSE 0

RowsOfVessel(m) == { i \in Reports : ais.rows[i].mmsi = m }

\* C9: in the table of build_ais and of raw_ais.build the ping values of a
\* vessel are exactly 0 .. n-1, and a smaller ping never has a later
\* timestamp than a larger ping of the same vessel.
C9_DenseSeq ==
  ais # NoTable =>
    /\ \A i \in Reports :
         { ais.rows[i2].ping : i2 \in RowsOfVessel(ais.rows[i].mmsi) }
           = 0..(Cardinality(RowsOfVessel(ais.rows[i].mmsi)) - 1)
    /\ \A i1, i2 \in Reports :
         (ais.rows[i1].mmsi = ais.rows[i2].mmsi /\ ais.rows[i1].ping < ais.rows[i2].ping)
           => ais.rows[i1].utc <= ais.rows[i2].utc

C9_Witness ==
  /\ ais # NoTable
  /\ \E i1, i2 \in Reports :
       /\ ais.rows[i1].mmsi = ais.rows[i2].mmsi
       /\ ais.rows[i1].ping = 0
       /\ ais.rows[i2].ping = 1
       /\ ais.rows[i1].utc < ais.rows[i2].utc
  /\ \E i \in Reports : ais.rows[i].mmsi # ais.rows[1].mmsi /\ ais.rows[i].ping = 0

\* C10: build_chips leaves both tables of the caller unchanged.
C10_InputsUnchanged ==
  [][BuildChips => (ais' = ais /\ sat_tiles' = sat_tiles)]_vars

====
